---- MODULE Spec2Model ----
(***************************************************************************)
(* One server connection of the PVAccess server (src/server.go): the read  *)
(* loop of serverConn.serve, the command handlers it dispatches to, the    *)
(* request table with the request objects it points to, and the background *)
(* execution tasks that handleChannelRPCBody hands to the errgroup.        *)
(***************************************************************************)
EXTENDS Integers, Sequences, FiniteSets, TLC

\* ---------------------------------------------------------------- bounds
MaxChan == 1
MaxReq == 2

\* The channel IDs create requests use, and the request IDs RPC messages use.
ChanIDs == 1..MaxChan
ReqIDs == 1..MaxReq
\* Pointers to request objects: one per table entry, and one to spare.
ObjIDs == 1..(MaxReq + 1)

\* Channel names a client may ask for.
Names == {"server", "factory", "plain", "broken", "nosuch"}

\* ------------------------------------------------------- program constants
\* requestStatus values.
INIT == "INIT"
READY == "READY"
REQUEST_IN_PROGRESS == "REQUEST_IN_PROGRESS"
CANCELLED == "CANCELLED"
DESTROYED == "DESTROYED"

\* Subcommand bits of a CHANNEL_RPC message, a subcommand being a set of bits.
CHANNEL_RPC_INIT == {"INIT"}
CHANNEL_RPC_DESTROY == {"DESTROY"}
Subcommands == {CHANNEL_RPC_INIT, {}, CHANNEL_RPC_DESTROY}

\* Severities of pvdata.PVStatus; the zero value is OK.
PVStatus_OK == "OK"
PVStatus_ERROR == "ERROR"
PVStatus_FATAL == "FATAL"

PVStatus(t, m) == [Type |-> t, Message |-> m]

\* ------------------------------------------------------------------ errors
\* A Go error value: nil, a pvdata.PVStatus used as an error, or any other error.
Nil == [kind |-> "nil", Type |-> "", Message |-> <<>>]
StatusError(t, m) == [kind |-> "status", Type |-> t, Message |-> m]
PlainError(m) == [kind |-> "error", Type |-> "", Message |-> m]

asyncOperation == PlainError(<<"async operation started">>)

\* errorToStatus with a fault: every error becomes an ERROR status.
errorToStatusAllError(err) ==
    IF err.kind = "nil" THEN PVStatus(PVStatus_OK, <<>>)
    ELSE PVStatus(PVStatus_ERROR, err.Message)

errorToStatus(err) ==
    IF err.kind = "nil" THEN PVStatus(PVStatus_OK, <<>>)
    ELSE IF err.kind = "status" THEN PVStatus(err.Type, err.Message)
    ELSE PVStatus(PVStatus_FATAL, err.Message)

\* ---------------------------------------------------------------- channels
\* A Channel value: nil, or a channel with the capabilities it implements.
NilChannel == [isNil |-> TRUE, name |-> "", caps |-> {}]
Chan(n, c) == [isNil |-> FALSE, name |-> n, caps |-> c]

\* The built-in provider: serverChannel.CreateChannel. The serverChannel has
\* a ChannelRPC method and no CreateChannelRPC method.
serverChannelCreateChannel(name) ==
    IF name = "server"
    THEN [channel |-> Chan("server", {"ChannelRPCer"}), err |-> Nil]
    ELSE [channel |-> NilChannel, err |-> Nil]

\* A second provider of the registry, registered by the embedding program.
extProviderCreateChannel(name) ==
    CASE name = "factory" -> [channel |-> Chan("factory", {"ChannelRPCCreator"}), err |-> Nil]
      [] name = "plain"   -> [channel |-> Chan("plain", {}), err |-> Nil]
      [] name = "broken"  -> [channel |-> NilChannel, err |-> PlainError(<<"provider failed">>)]
      [] OTHER            -> [channel |-> NilChannel, err |-> Nil]

\* ---------------------------------------------------------------- requests
\* A request object; the request table and the tasks hold pointers to these.
NoObj == [doer |-> "free", cancel |-> "nil", status |-> INIT]
Request(d) == [doer |-> d, cancel |-> "nil", status |-> READY]

NoTask == [pc |-> "none", RequestID |-> 0, Subcommand |-> {}, err |-> Nil]

VARIABLES
    channels,   \* c.channels: channel ID -> Channel (NilChannel = no entry)
    requests,   \* c.requests: request ID -> pointer to a request (0 = no entry)
    heap,       \* the request objects, by pointer
    task,       \* the goroutine started by c.g.Go for a request object
    mu,         \* c.mu: 0 = unlocked, o = held by the task of object o
    loop,       \* position of serve: "start", "running", "eof", "err", "panic"
    gErr,       \* first error returned to the errgroup of handleConnection
    ctxDone,    \* the connection's context has been cancelled
    closed,     \* handleConnection has returned and closed the transport
    initAcked,  \* request IDs whose current entry's INIT was acknowledged on the wire
    ev          \* the last step taken, with the messages it put on the wire

vars == <<channels, requests, heap, task, mu, loop, gErr, ctxDone, closed,
          initAcked, ev>>

\* -------------------------------------------------------------------- init
\* The state newConn and handleConnection build, before serve's handshake.
Init ==
    /\ channels = [i \in ChanIDs |-> NilChannel]
    /\ requests = [r \in ReqIDs |-> 0]
    /\ heap = [o \in ObjIDs |-> NoObj]
    /\ task = [o \in ObjIDs |-> NoTask]
    /\ mu = 0
    /\ loop = "start"
    /\ gErr = Nil
    /\ ctxDone = FALSE
    /\ closed = FALSE
    /\ initAcked = {}
    /\ ev = [type |-> "init", sent |-> <<>>]

\* ----------------------------------------------------------------- helpers
\* An error of the framed connection or of the search server.
ioError == PlainError(<<"I/O error">>)

\* The result of a SendApp / SendCtrl call on the framed connection.
SendApp(ok) == IF ok THEN Nil ELSE ioError

\* ChannelAt with a fault: the lookup finds nothing.
ChannelAtNone(id) == NilChannel

\* Map lookups: a key without an entry yields the zero value.
ChannelAt(id) == IF id \in DOMAIN channels THEN channels[id] ELSE NilChannel

\* The request object the table holds for id, NoObj when it holds none.
RequestAt(id) == IF requests[id] = 0 THEN NoObj ELSE heap[requests[id]]

\* The messages a send leaves on the wire.
Wire(ok, m) == IF ok THEN <<m>> ELSE <<>>

\* ServeAfter with a fault: the loop goes on whatever was returned.
ServeAfterContinue(err) ==
    /\ loop' = "running"
    /\ UNCHANGED <<gErr, ctxDone>>

\* serve's loop after a handler (or a read) returned err: a non-nil error ends
\* serve, which returns it to the errgroup, and the errgroup cancels its context.
ServeAfter(err) ==
    /\ loop' = IF err = Nil THEN "running" ELSE "err"
    /\ gErr' = IF err = Nil \/ gErr /= Nil THEN gErr ELSE err
    /\ ctxDone' = (ctxDone \/ err /= Nil)

\* Request objects nothing points to any more are reclaimed.
Collect(reqs, hp, tk) ==
    [o \in ObjIDs |->
        IF (\E id \in ReqIDs : reqs[id] = o) \/ tk[o].pc /= "none"
        THEN hp[o] ELSE NoObj]

\* The pointers a new request for id may get: those nothing but the entry it
\* replaces points to. The entry's own slot is taken when it is among them.
FreeObjs(id) ==
    {o \in ObjIDs : /\ task[o].pc = "none"
                    /\ \A i \in ReqIDs \ {id} : requests[i] /= o}
NewObj(id) ==
    IF id \in FreeObjs(id) THEN id
    ELSE CHOOSE o \in FreeObjs(id) : \A p \in FreeObjs(id) : o <= p

\* --------------------------------------------------------------- handshake
\* serve, up to the loop: SendCtrl's error ends serve, SendApp's is dropped.
Handshake(ctrlOK, appOK) ==
    /\ loop = "start"
    /\ ServeAfter(SendApp(ctrlOK))
    /\ ev' = [type |-> "handshake",
              sent |-> IF ctrlOK
                       THEN Wire(TRUE, [cmd |-> "CTRL_SET_BYTE_ORDER"])
                            \o Wire(appOK, [cmd |-> "APP_CONNECTION_VALIDATION"])
                       ELSE <<>>]
    /\ UNCHANGED <<channels, requests, heap, task, mu, closed, initAcked>>

\* --------------------------------------------------------------- read loop
\* c.Next reports clean end-of-stream: serve cancels its context, returns nil.
ReadEOF ==
    /\ loop = "running"
    /\ loop' = "eof"
    /\ ctxDone' = TRUE
    /\ ev' = [type |-> "eof", sent |-> <<>>]
    /\ UNCHANGED <<channels, requests, heap, task, mu, gErr, closed, initAcked>>

\* c.Next reports any other error: handleServerOnePacket and serve return it.
ReadError ==
    /\ loop = "running"
    /\ ServeAfter(ioError)
    /\ ev' = [type |-> "readerr", sent |-> <<>>]
    /\ UNCHANGED <<channels, requests, heap, task, mu, closed, initAcked>>

\* A handler's msg.Decode fails: the handler returns the error.
DecodeError(cmd) ==
    /\ loop = "running"
    /\ ServeAfter(ioError)
    /\ ev' = [type |-> "decodeerr", cmd |-> cmd, sent |-> <<>>]
    /\ UNCHANGED <<channels, requests, heap, task, mu, closed, initAcked>>

\* The commands of serverDispatch.
DispatchCommands ==
    {"APP_CONNECTION_VALIDATION", "APP_CHANNEL_CREATE", "APP_CHANNEL_RPC",
     "APP_SEARCH_REQUEST"}

\* Some commands serverDispatch has no entry for.
OtherCommands == {"APP_ECHO", "APP_CHANNEL_DESTROY"}

\* noHandler with a fault: a command without a handler is an error.
noHandlerError == PlainError(<<"unknown command">>)

\* What handleServerOnePacket returns when serverDispatch has no entry: nil.
noHandler == Nil

\* handleServerOnePacket on a command without a handler.
IgnoreMessage(cmd) ==
    /\ loop = "running"
    /\ cmd \notin DispatchCommands
    /\ ServeAfter(noHandler)
    /\ ev' = [type |-> "ignored", cmd |-> cmd, sent |-> <<>>]
    /\ UNCHANGED <<channels, requests, heap, task, mu, closed, initAcked>>

\* handleConnectionValidation: reply APP_CONNECTION_VALIDATED.
HandleConnectionValidation(sendOK) ==
    /\ loop = "running"
    /\ ServeAfter(SendApp(sendOK))
    /\ ev' = [type |-> "validation",
              sent |-> Wire(sendOK, [cmd |-> "APP_CONNECTION_VALIDATED"])]
    /\ UNCHANGED <<channels, requests, heap, task, mu, closed, initAcked>>

\* handleSearchRequest: forward to the search server, whose error is returned.
HandleSearchRequest(searchOK) ==
    /\ loop = "running"
    /\ ServeAfter(IF searchOK THEN Nil ELSE ioError)
    /\ ev' = [type |-> "search", sent |-> <<>>]
    /\ UNCHANGED <<channels, requests, heap, task, mu, closed, initAcked>>

\* ---------------------------------------------------------- create channel
\* c.createChannel: ask the providers in order; the first channel found is
\* registered under the client's ID. The result carries the new channel
\* table and the number of providers asked.
createChannel(id, name) ==
    LET first == serverChannelCreateChannel(name)
        second == extProviderCreateChannel(name)
        found(ch, n) == [channel |-> ch, err |-> Nil, queried |-> n,
                         channels |-> [channels EXCEPT ![id] = ch]]
        none(e, n) == [channel |-> NilChannel, err |-> e, queried |-> n,
                       channels |-> channels]
    IN  IF first.err /= Nil THEN none(first.err, 1)
        ELSE IF ~first.channel.isNil THEN found(first.channel, 1)
        ELSE IF second.err /= Nil THEN none(second.err, 2)
        ELSE IF ~second.channel.isNil THEN found(second.channel, 2)
        ELSE none(Nil, 2)

\* OneChannel with a fault: any non-empty request is served from its first entry.
OneChannelNonEmpty(n) == n >= 1

\* The test len(req.Channels) == 1.
OneChannel(n) == n = 1

\* The entries of a CreateChannelRequest.
Entries == [ClientChannelID : ChanIDs, ChannelName : Names]
EntryLists ==
    {<<>>} \cup {<<e>> : e \in Entries}
           \cup {<<e, f>> : e \in Entries, f \in {g \in Entries : g.ChannelName = "server"}}

\* unknownChannel with a fault: the message leaves the name out.
unknownChannelUnnamed(name) == PVStatus(PVStatus_ERROR, <<"unknown channel">>)

\* The status for a name no provider resolved: "unknown channel %q".
unknownChannel(name) == PVStatus(PVStatus_ERROR, <<"unknown channel", name>>)

\* handleCreateChannelRequest, after a successful decode.
HandleCreateChannelRequest(Channels, sendOK) ==
    /\ loop = "running"
    /\ OneChannel(Len(Channels)) => mu = 0
    /\ LET one == OneChannel(Len(Channels))
           ch == Channels[1]
           res == createChannel(ch.ClientChannelID, ch.ChannelName)
           status == IF ~one THEN PVStatus(PVStatus_ERROR, <<"wrong number of channels">>)
                     ELSE IF res.err /= Nil THEN errorToStatus(res.err)
                     ELSE IF ~res.channel.isNil THEN PVStatus(PVStatus_OK, <<>>)
                     ELSE unknownChannel(ch.ChannelName)
           resp == [cmd |-> "APP_CHANNEL_CREATE",
                    ClientChannelID |-> IF one THEN ch.ClientChannelID ELSE 0,
                    ServerChannelID |-> IF one /\ res.err = Nil /\ ~res.channel.isNil
                                        THEN ch.ClientChannelID ELSE 0,
                    Status |-> status]
       IN  /\ channels' = IF one THEN res.channels ELSE channels
           /\ ev' = [type |-> "create", n |-> Len(Channels),
                     id |-> IF one THEN ch.ClientChannelID ELSE 0,
                     name |-> IF one THEN ch.ChannelName ELSE "",
                     queried |-> IF one THEN res.queried ELSE 0,
                     touched |-> (one /\ res.channels /= channels),
                     sent |-> Wire(sendOK, resp)]
    /\ ServeAfter(SendApp(sendOK))
    /\ UNCHANGED <<requests, heap, task, mu, closed, initAcked>>

\* ------------------------------------------------------------- channel RPC
\* The decoded ChannelRPCRequest messages; isStruct tells whether
\* PVRequest.Data is a pvdata.PVStructure. Channel ID 0 is one that no
\* create request names.
RPCRequests ==
    [ServerChannelID : 0..MaxChan, RequestID : ReqIDs, Subcommand : Subcommands,
     isStruct : BOOLEAN]

\* What a channel's CreateChannelRPC may return: an executor, an error that
\* carries a status, any other error, or neither executor nor error.
FactoryResults ==
    {[rpcer |-> "ChannelRPCer", err |-> Nil],
     [rpcer |-> "nil", err |-> StatusError(PVStatus_ERROR, <<"rejected">>)],
     [rpcer |-> "nil", err |-> PlainError(<<"factory failed">>)],
     [rpcer |-> "nil", err |-> Nil]}

\* The factory is asked only by an INIT that reaches a channel with the
\* RPC-factory capability.
FactoryFor(req) ==
    IF /\ req.isStruct
       /\ req.Subcommand = CHANNEL_RPC_INIT
       /\ "ChannelRPCCreator" \in ChannelAt(req.ServerChannelID).caps
    THEN FactoryResults
    ELSE {[rpcer |-> "nil", err |-> Nil]}

\* What an executor's ChannelRPC may return as its error.
ExecResults ==
    {Nil, StatusError(PVStatus_ERROR, <<"invalid argument">>)}

\* What handleChannelRPCBody leaves behind: its error (or a panic) and the
\* request table, request objects and tasks after it.
Ret(e) == [err |-> e, panic |-> FALSE, requests |-> requests, heap |-> heap,
           task |-> task]
Panic == [err |-> Nil, panic |-> TRUE, requests |-> requests, heap |-> heap,
          task |-> task]

\* addRequest with a fault: the new request replaces whatever the table holds.
addRequestNoCheck(id, r) ==
    LET reqs == [requests EXCEPT ![id] = NewObj(id)]
        hp == [heap EXCEPT ![NewObj(id)] = r]
    IN  [err |-> Nil, panic |-> FALSE, requests |-> reqs,
         heap |-> Collect(reqs, hp, task), task |-> task]

\* serverConn.addRequest.
addRequest(id, r) ==
    LET existing == requests[id]
    IN  IF existing /= 0 /\ heap[existing].status /= DESTROYED
        THEN Ret(PlainError(<<"request ID already exists", id, heap[existing].status>>))
        ELSE LET reqs == [requests EXCEPT ![id] = NewObj(id)]
                 hp == [heap EXCEPT ![NewObj(id)] = r]
             IN  [err |-> Nil, panic |-> FALSE, requests |-> reqs,
                  heap |-> Collect(reqs, hp, task), task |-> task]

\* The test req.Subcommand&proto.CHANNEL_RPC_DESTROY == proto.CHANNEL_RPC_DESTROY.
HasDestroy(sub) == (sub \cap CHANNEL_RPC_DESTROY) = CHANNEL_RPC_DESTROY

\* handleChannelRPCBody: case proto.CHANNEL_RPC_INIT.
rpcInit(req, channel, fac) ==
    IF "ChannelRPCCreator" \in channel.caps
    THEN IF fac.err /= Nil THEN Ret(fac.err)
         ELSE addRequest(req.RequestID, Request(fac.rpcer))
    ELSE IF "ChannelRPCer" \in channel.caps
    THEN addRequest(req.RequestID, Request("ChannelRPCer"))
    ELSE Ret(PlainError(<<"channel does not support RPC", req.ServerChannelID>>))

\* handleChannelRPCBody: the default case, under c.mu. r.status on a request
\* ID without an entry dereferences a nil pointer.
rpcExec(req) ==
    LET r == requests[req.RequestID]
    IN  IF r = 0 THEN Panic
        ELSE IF heap[r].status /= READY
        THEN Ret(StatusError(PVStatus_ERROR, <<"request not READY">>))
        ELSE IF heap[r].doer /= "ChannelRPCer"
        THEN Ret(PlainError(<<"request not for RPC">>))
        ELSE [err |-> asyncOperation, panic |-> FALSE, requests |-> requests,
              heap |-> [heap EXCEPT ![r].status = REQUEST_IN_PROGRESS,
                                    ![r].cancel = "set"],
              task |-> [task EXCEPT ![r] =
                           [pc |-> "exec", RequestID |-> req.RequestID,
                            Subcommand |-> req.Subcommand, err |-> Nil]]]

\* serverConn.handleChannelRPCBody.
handleChannelRPCBody(req, fac) ==
    LET channel == ChannelAt(req.ServerChannelID)
    IN  IF channel.isNil
        THEN Ret(PlainError(<<"unknown channel ID", req.ServerChannelID>>))
        ELSE IF ~req.isStruct
        THEN Ret(PlainError(<<"RPC arguments were not a PVStructure">>))
        ELSE IF req.Subcommand = CHANNEL_RPC_INIT
        THEN rpcInit(req, channel, fac)
        ELSE rpcExec(req)

\* ------------------------------------------- the handler's use of c.mu
\* What the goroutine of the read loop does, in program order, while it
\* handles one CHANNEL_RPC message: its Lock and Unlock calls on c.mu, its
\* reads and writes of the tables and of a request's status, and its calls
\* out of the package.

\* lookupChannel with a fault: the mutex is kept after the lookup.
lookupChannelNoUnlock == <<"Lock", "read channels">>

\* c.mu.Lock(); channel := c.channels[req.ServerChannelID]; c.mu.Unlock().
lookupChannel == <<"Lock", "read channels", "Unlock">>

\* serverConn.addRequest: the deferred Unlock runs at each return.
addRequestOps(id) ==
    LET existing == requests[id]
    IN  <<"Lock", "read requests">>
        \o (IF existing = 0 THEN <<"write requests">>
            ELSE IF heap[existing].status /= DESTROYED THEN <<"read status">>
            ELSE <<"read status", "write requests">>)
        \o <<"Unlock">>

\* case proto.CHANNEL_RPC_INIT.
rpcInitOps(req, channel, fac) ==
    IF "ChannelRPCCreator" \in channel.caps
    THEN <<"CreateChannelRPC">>
         \o (IF fac.err /= Nil THEN <<>> ELSE addRequestOps(req.RequestID))
    ELSE IF "ChannelRPCer" \in channel.caps
    THEN addRequestOps(req.RequestID)
    ELSE <<>>

\* The default case: c.mu.Lock(), defer c.mu.Unlock(), and the body up to
\* the return that runs the deferred call.
rpcExecOps(req) ==
    LET r == requests[req.RequestID]
    IN  <<"Lock", "read requests">>
        \o (IF r = 0 THEN <<"panic">>
            ELSE IF heap[r].status /= READY THEN <<"read status">>
            ELSE IF heap[r].doer /= "ChannelRPCer" THEN <<"read status">>
            ELSE <<"read status", "write status", "g.Go">>)
        \o <<"Unlock">>

\* serverConn.handleChannelRPCBody.
handleChannelRPCBodyOps(req, fac) ==
    LET channel == ChannelAt(req.ServerChannelID)
    IN  lookupChannel
        \o (IF channel.isNil \/ ~req.isStruct THEN <<>>
            ELSE IF req.Subcommand = CHANNEL_RPC_INIT
            THEN rpcInitOps(req, channel, fac)
            ELSE rpcExecOps(req))

\* serverConn.handleChannelRPC: the body, then the response unless the
\* body returned asyncOperation (or panicked).
handleChannelRPCOps(req, fac, quiet) ==
    handleChannelRPCBodyOps(req, fac) \o (IF quiet THEN <<>> ELSE <<"SendApp">>)

\* handleChannelRPC's test err == asyncOperation: no response, return nil.
SuppressResponse(err) == err = asyncOperation

\* handlerReturn with a fault: the result of sending the response is dropped.
handlerReturnDropped(sendErr) == Nil

\* handleChannelRPC's return value: the result of c.SendApp.
handlerReturn(sendErr) == sendErr

\* handleChannelRPC, after a successful decode. A panic of the read loop's
\* goroutine is not recovered: the process ends.
HandleChannelRPC(req, sendOK) ==
    /\ loop = "running"
    /\ mu = 0
    /\ FreeObjs(req.RequestID) /= {}
    /\ \E fac \in FactoryFor(req) :
       LET res == handleChannelRPCBody(req, fac)
           resp == [cmd |-> "APP_CHANNEL_RPC", RequestID |-> req.RequestID,
                    Subcommand |-> req.Subcommand, Status |-> errorToStatus(res.err),
                    from |-> "handler"]
           quiet == res.panic \/ SuppressResponse(res.err)
           sent == IF quiet THEN <<>> ELSE Wire(sendOK, resp)
           spawned == {o \in ObjIDs : task[o].pc = "none" /\ res.task[o].pc /= "none"}
       IN  /\ requests' = res.requests
           /\ heap' = res.heap
           /\ task' = res.task
           /\ IF res.panic
              THEN /\ loop' = "panic"
                   /\ UNCHANGED <<gErr, ctxDone>>
              ELSE ServeAfter(IF quiet THEN Nil ELSE handlerReturn(SendApp(sendOK)))
           /\ initAcked' =
                 IF res.panic \/ req.Subcommand /= CHANNEL_RPC_INIT \/ res.err /= Nil
                 THEN initAcked
                 ELSE IF sent /= <<>> THEN initAcked \cup {req.RequestID}
                 ELSE initAcked \ {req.RequestID}
           /\ ev' = [type |-> "rpc", req |-> req, sent |-> sent,
                     spawned |-> spawned, panic |-> res.panic, err |-> res.err,
                     ops |-> handleChannelRPCOps(req, fac, quiet),
                     pre |-> RequestAt(req.RequestID),
                     touched |-> (res.requests /= requests \/ res.heap /= heap
                                    \/ res.task /= task)]
    /\ UNCHANGED <<channels, mu, closed>>

\* ------------------------------------------------------- execution tasks
\* The process is alive and the task of object o is at position pc.
At(o, pc) == loop /= "panic" /\ task[o].pc = pc

\* rpcer.ChannelRPC returns, with or without an error.
TaskExec(o, err) ==
    /\ At(o, "exec")
    /\ task' = [task EXCEPT ![o].pc = "send", ![o].err = err]
    /\ ev' = [type |-> "executed", obj |-> o, RequestID |-> task[o].RequestID,
              sent |-> <<>>]
    /\ UNCHANGED <<channels, requests, heap, mu, loop, gErr, ctxDone, closed, initAcked>>

\* The task builds the ChannelRPCResponse and sends it; a failed send is logged.
TaskSend(o, sendOK) ==
    /\ At(o, "send")
    /\ task' = [task EXCEPT ![o].pc = "lock"]
    /\ ev' = [type |-> "completion", obj |-> o, RequestID |-> task[o].RequestID,
              err |-> task[o].err,
              sent |-> Wire(sendOK,
                  [cmd |-> "APP_CHANNEL_RPC", RequestID |-> task[o].RequestID,
                   Subcommand |-> task[o].Subcommand,
                   Status |-> errorToStatus(task[o].err), from |-> "task"])]
    /\ UNCHANGED <<channels, requests, heap, mu, loop, gErr, ctxDone, closed, initAcked>>

\* c.mu.Lock(); r.status = READY.
TaskLock(o) ==
    /\ At(o, "lock")
    /\ mu = 0
    /\ mu' = o
    /\ heap' = [heap EXCEPT ![o].status = READY]
    /\ task' = [task EXCEPT ![o].pc = "locked"]
    /\ ev' = [type |-> "locked", obj |-> o, RequestID |-> task[o].RequestID,
              sent |-> <<>>]
    /\ UNCHANGED <<channels, requests, loop, gErr, ctxDone, closed, initAcked>>

\* finalStatus with a fault: the DESTROY flag is not looked at.
finalStatusReady(sub) == READY

\* finalStatus with a fault: an execution without the flag ends CANCELLED.
finalStatusCancelled(sub) == IF HasDestroy(sub) THEN DESTROYED ELSE CANCELLED

\* The status the task leaves: READY, or DESTROYED with the DESTROY flag.
finalStatus(sub) == IF HasDestroy(sub) THEN DESTROYED ELSE READY

\* taskReturn with a fault: the executor's error is returned to the errgroup.
taskReturnErr(err) == err

\* The task's return value to the errgroup.
taskReturn(err) == Nil

\* Unlock with a fault: the task returns with the mutex still taken.
UnlockMissing(o) == o

\* The mutex after its holder o ran the deferred c.mu.Unlock(): free.
Unlock(o) == 0

\* The DESTROY test, return nil and the deferred c.mu.Unlock().
TaskFinish(o) ==
    /\ At(o, "locked")
    /\ mu = o
    /\ mu' = Unlock(o)
    /\ LET hp == [heap EXCEPT ![o].status = finalStatus(task[o].Subcommand)]
           tk == [task EXCEPT ![o] = NoTask]
           ret == taskReturn(task[o].err)
       IN  /\ task' = tk
           /\ heap' = Collect(requests, hp, tk)
           /\ gErr' = IF ret = Nil \/ gErr /= Nil THEN gErr ELSE ret
           /\ ctxDone' = (ctxDone \/ ret /= Nil)
           /\ ev' = [type |-> "finished", obj |-> o, RequestID |-> task[o].RequestID,
                     Subcommand |-> task[o].Subcommand, err |-> task[o].err,
                     ret |-> ret, sent |-> <<>>]
    /\ UNCHANGED <<channels, requests, loop, closed, initAcked>>

\* ---------------------------------------------------------------- teardown
\* Wait with a fault: only serve is waited for.
WaitServeOnly == loop \in {"eof", "err"}

\* g.Wait() returns once serve and every task of the group have returned.
Wait ==
    /\ loop \in {"eof", "err"}
    /\ \A o \in ObjIDs : task[o].pc = "none"

\* handleConnection: after g.Wait() the deferred conn.Close() runs.
ConnClose ==
    /\ Wait
    /\ ~closed
    /\ closed' = TRUE
    /\ ctxDone' = TRUE
    /\ ev' = [type |-> "closed", sent |-> <<>>]
    /\ UNCHANGED <<channels, requests, heap, task, mu, loop, gErr, initAcked>>

\* ------------------------------------------------------------ specification
Next ==
    \/ \E ctrlOK \in BOOLEAN, appOK \in BOOLEAN : Handshake(ctrlOK, appOK)
    \/ ReadEOF
    \/ ReadError
    \/ \E cmd \in DispatchCommands : DecodeError(cmd)
    \/ \E cmd \in OtherCommands : IgnoreMessage(cmd)
    \/ \E sendOK \in BOOLEAN : HandleConnectionValidation(sendOK)
    \/ \E searchOK \in BOOLEAN : HandleSearchRequest(searchOK)
    \/ \E Channels \in EntryLists, sendOK \in BOOLEAN :
          HandleCreateChannelRequest(Channels, sendOK)
    \/ \E req \in RPCRequests, sendOK \in BOOLEAN : HandleChannelRPC(req, sendOK)
    \/ \E o \in ObjIDs, err \in ExecResults : TaskExec(o, err)
    \/ \E o \in ObjIDs, sendOK \in BOOLEAN : TaskSend(o, sendOK)
    \/ \E o \in ObjIDs : TaskLock(o)
    \/ \E o \in ObjIDs : TaskFinish(o)
    \/ ConnClose

Spec == Init /\ [][Next]_vars

\* One step of the task goroutine of object o. An executor is only taken to
\* return once its context is cancelled; a send returns; the mutex is
\* granted when free; the critical section ends.
TaskStep(o) ==
    \/ ctxDone /\ \E err \in ExecResults : TaskExec(o, err)
    \/ \E sendOK \in BOOLEAN : TaskSend(o, sendOK)
    \/ TaskLock(o)
    \/ TaskFinish(o)

\* The same behaviours, with every task goroutine and handleConnection's
\* goroutine scheduled as long as they can run.
FairSpec ==
    /\ Spec
    /\ \A o \in ObjIDs : WF_vars(TaskStep(o))
    /\ WF_vars(ConnClose)

\* ------------------------------------------------------------------ claims
\* The last step handled a decoded CHANNEL_RPC message.
IsRPC == ev.type = "rpc"
IsInit == IsRPC /\ ev.req.Subcommand = CHANNEL_RPC_INIT
IsExec == IsRPC /\ ev.req.Subcommand /= CHANNEL_RPC_INIT
\* Its channel ID was in the channel table and its argument a structure.
WellFormed == IsRPC /\ ev.req.isStruct /\ ~ChannelAt(ev.req.ServerChannelID).isNil
\* Its request ID had an entry, and that entry was READY.
WasRegistered == IsRPC /\ ev.pre /= NoObj
WasReady == WasRegistered /\ ev.pre.status = READY

\* The last step sent exactly one response, of severity t, and serve goes on;
\* or the send itself failed, which ends serve with the send's error.
Answered(t) ==
    /\ loop \in {"running", "err"}
    /\ loop = "running" => Len(ev.sent) = 1 /\ ev.sent[1].Status.Type = t
    /\ loop = "err" => ev.sent = <<>>

\* C1: an EXEC with a known channel and a structure argument starts an
\* execution only if its request was registered and READY; otherwise it is
\* answered with ERROR, spawns no task and leaves the request as it was.
C1_ExecOnlyWhenReady ==
    (IsExec /\ WellFormed) =>
        /\ ev.spawned /= {} => WasReady
        /\ ~WasReady =>
              /\ ~ev.panic
              /\ ev.spawned = {}
              /\ ~ev.touched
              /\ Answered(PVStatus_ERROR)

\* C2: an EXEC for a request ID without an entry (known channel, structure
\* argument) is answered with ERROR "request not READY", starts no
\* execution, and the read loop goes on.
C2_UnknownRequestRejected ==
    (IsExec /\ WellFormed /\ ~WasRegistered) =>
        /\ ~ev.panic
        /\ ev.spawned = {}
        /\ Answered(PVStatus_ERROR)
        /\ ev.sent /= <<>> => ev.sent[1].Status.Message = <<"request not READY">>

\* C3: an INIT that reaches addRequest while its request ID has an entry
\* that is not DESTROYED fails and leaves the entry untouched; when the ID
\* has no entry, or a DESTROYED one, a fresh READY entry is installed.
C3_LiveRequestNeverReplaced ==
    (IsInit /\ WellFormed) =>
        LET id == ev.req.RequestID
            caps == ChannelAt(ev.req.ServerChannelID).caps
        IN  IF WasRegistered /\ ev.pre.status /= DESTROYED
            THEN /\ ev.err /= Nil
                 /\ ~ev.touched
                 /\ RequestAt(id) = ev.pre
                 /\ ev.sent /= <<>> => ev.sent[1].Status.Type /= PVStatus_OK
            ELSE /\ caps = {"ChannelRPCer"} => ev.err = Nil
                 /\ ev.err = Nil =>
                       /\ requests[id] /= 0
                       /\ RequestAt(id).status = READY
                       /\ RequestAt(id).cancel = "nil"
                       /\ task[requests[id]] = NoTask
                       /\ ev.sent /= <<>> => ev.sent[1].Status.Type = PVStatus_OK

\* C3's case: an INIT is refused because its ID names a request in progress.
C3_Witness ==
    /\ IsInit /\ WellFormed /\ WasRegistered
    /\ ev.pre.status = REQUEST_IN_PROGRESS
    /\ ev.sent /= <<>>

\* C4: when the task of an EXEC with the DESTROY flag finishes, the request
\* is DESTROYED, whatever the executor returned; while the task runs, the
\* request is READY only with the mutex held by the task.
C4_DestroyEndsDestroyed ==
    /\ (ev.type = "finished" /\ HasDestroy(ev.Subcommand)) =>
          /\ requests[ev.RequestID] = ev.obj
          /\ heap[ev.obj].status = DESTROYED
    /\ \A o \in ObjIDs :
          (task[o].pc /= "none" /\ HasDestroy(task[o].Subcommand)) =>
              /\ heap[o].status \in {REQUEST_IN_PROGRESS, READY}
              /\ heap[o].status = READY => mu = o

\* C4's case: a DESTROY execution whose executor failed has finished.
C4_Witness ==
    /\ ev.type = "finished"
    /\ HasDestroy(ev.Subcommand)
    /\ ev.err /= Nil
    /\ heap[ev.obj].status = DESTROYED

\* C5: a completion response for request ID r is sent, and a task for r
\* runs, only after the INIT of r's entry has been acknowledged on the wire.
C5_CompletionAfterInitAck ==
    /\ (ev.type = "completion" /\ ev.sent /= <<>>) => ev.RequestID \in initAcked
    /\ \A o \in ObjIDs : task[o].pc /= "none" => task[o].RequestID \in initAcked

\* C5's case: the completion of request 2 is sent while request 1, whose
\* INIT was acknowledged too, is still executing.
C5_Witness ==
    /\ ev.type = "completion" /\ ev.sent /= <<>> /\ ev.RequestID = 2
    /\ 1 \in initAcked
    /\ \E o \in ObjIDs : task[o].pc = "exec" /\ task[o].RequestID = 1

\* C6: every decoded CHANNEL_RPC message gets exactly one response: one
\* from the handler and no task, or none from the handler and one task; the
\* asynchronous outcome is never sent as a status.
C6_ExactlyOneResponse ==
    /\ IsRPC =>
          IF ev.spawned /= {}
          THEN Cardinality(ev.spawned) = 1 /\ ev.sent = <<>> /\ loop = "running"
          ELSE /\ loop \in {"running", "err"}
               /\ loop = "running" => Len(ev.sent) = 1
    /\ \A i \in 1..Len(ev.sent) :
          "Status" \in DOMAIN ev.sent[i] =>
              ev.sent[i].Status.Message /= asyncOperation.Message

\* C7 as stated: an INIT on a channel ID without an entry is answered with
\* ERROR status, registers nothing, and the connection stays open.
C7_UnknownChannelInitIsError ==
    (IsInit /\ ChannelAt(ev.req.ServerChannelID).isNil) =>
        /\ ~ev.touched
        /\ Answered(PVStatus_ERROR)

\* C7 amended: the status of that response is FATAL, with the message
\* "unknown channel ID"; nothing is registered, the connection stays open.
C7_UnknownChannelInitIsFatal ==
    (IsInit /\ ChannelAt(ev.req.ServerChannelID).isNil) =>
        /\ ~ev.touched
        /\ ~ev.panic
        /\ ev.spawned = {}
        /\ Answered(PVStatus_FATAL)
        /\ ev.sent /= <<>> =>
              ev.sent[1].Status.Message = <<"unknown channel ID", ev.req.ServerChannelID>>

\* C7's case: such an INIT was answered while the request table had entries.
C7_Witness ==
    /\ IsInit /\ ChannelAt(ev.req.ServerChannelID).isNil
    /\ ev.sent /= <<>>
    /\ loop = "running"
    /\ \E id \in ReqIDs : requests[id] /= 0

\* C8: a create request without exactly one entry, an INIT on a channel with
\* neither RPC capability and an EXEC on a request that is not READY are each
\* answered with ERROR severity, and none ends the connection.
C8_RecoverableErrors ==
    /\ (ev.type = "create" /\ ev.n /= 1) => Answered(PVStatus_ERROR)
    /\ (IsInit /\ WellFormed /\ ChannelAt(ev.req.ServerChannelID).caps = {}) =>
          Answered(PVStatus_ERROR)
    /\ (IsExec /\ WellFormed /\ ~WasReady) => Answered(PVStatus_ERROR)

\* C9: a failed executor shows only in the status of the completion
\* response: the task returns nil to the errgroup, whose error can only be
\* serve's, and the request is READY again (DESTROYED with the DESTROY flag).
C9_ExecutorFailureIsOnlyAStatus ==
    /\ gErr /= Nil => loop = "err"
    /\ (ev.type = "completion" /\ ev.err /= Nil /\ ev.sent /= <<>>) =>
          /\ ev.sent[1].Status.Type /= PVStatus_OK
          /\ ev.sent[1].Status.Message = ev.err.Message
    /\ (ev.type = "finished" /\ ev.err /= Nil) =>
          /\ ev.ret = Nil
          /\ requests[ev.RequestID] = ev.obj
          /\ heap[ev.obj].status =
                IF HasDestroy(ev.Subcommand) THEN DESTROYED ELSE READY

\* C9's case: a failed execution has finished, the read loop is still
\* running and the request is READY again.
C9_Witness ==
    /\ ev.type = "finished" /\ ev.err /= Nil
    /\ loop = "running"
    /\ heap[ev.obj].status = READY

\* C10: a create request with no entry, or with two or more, is answered by
\* one APP_CHANNEL_CREATE response with ERROR status; no provider is asked
\* and the channel table stays as it was.
C10_WrongChannelCount ==
    (ev.type = "create" /\ ev.n /= 1) =>
        /\ ev.queried = 0
        /\ ~ev.touched
        /\ Answered(PVStatus_ERROR)
        /\ ev.sent /= <<>> =>
              /\ ev.sent[1].cmd = "APP_CHANNEL_CREATE"
              /\ ev.sent[1].Status.Message = <<"wrong number of channels">>

\* C10's case: a create request with two entries was answered.
C10_Witness ==
    /\ ev.type = "create" /\ ev.n = 2
    /\ ev.sent /= <<>>
    /\ loop = "running"

\* The last step handled a create request with exactly one entry.
IsCreateOne == ev.type = "create" /\ ev.n = 1
\* What the provider registry returns for the entry's name.
Resolution == createChannel(ev.id, ev.name)

\* C11: a single-entry create request whose name every provider answers
\* with no channel and no error gets an ERROR response whose message
\* carries the requested name, and the request registers nothing: the
\* channel table is as it was before.
C11_UnknownNameIsError ==
    (IsCreateOne /\ Resolution.err = Nil /\ Resolution.channel.isNil) =>
        /\ Answered(PVStatus_ERROR)
        /\ ~ev.touched
        /\ ev.sent /= <<>> =>
              /\ ev.sent[1].Status.Message = <<"unknown channel", ev.name>>
              /\ ev.sent[1].ClientChannelID = ev.id
              /\ ev.sent[1].ServerChannelID = 0

\* C11's case: an unknown name was asked for and answered, with nothing
\* registered under the ID it named.
C11_Witness ==
    /\ IsCreateOne /\ ev.name = "nosuch"
    /\ ev.sent /= <<>>
    /\ channels[ev.id].isNil
    /\ loop = "running"

\* The error handleChannelRPCBody returns for a channel ID without an entry.
UnknownChannelID == PlainError(<<"unknown channel ID", ev.req.ServerChannelID>>)

\* C12, in a state: a single-entry create request whose name a provider
\* resolves leaves that channel in the table under the client's ID and is
\* answered OK with that ID as client and as server channel ID; an INIT
\* naming an ID the table has a channel under gets past the channel lookup.
C12_Registered ==
    /\ (IsCreateOne /\ Resolution.err = Nil /\ ~Resolution.channel.isNil) =>
          /\ channels[ev.id] = Resolution.channel
          /\ Answered(PVStatus_OK)
          /\ ev.sent /= <<>> =>
                /\ ev.sent[1].ClientChannelID = ev.id
                /\ ev.sent[1].ServerChannelID = ev.id
    /\ (IsInit /\ ev.req.ServerChannelID \in ChanIDs
              /\ ~channels[ev.req.ServerChannelID].isNil) =>
          /\ ~ev.panic
          /\ ev.err /= UnknownChannelID

\* C12, in a step: a channel once registered stays in the table, so the
\* INIT may come at any later time.
C12_Stays ==
    \A id \in ChanIDs : ~channels[id].isNil => ~channels'[id].isNil

\* C12: a resolved channel is registered under the client's ID, answered OK
\* with that ID twice, and found by every later INIT that names the ID.
C12_ResolvedChannelIsFound == []C12_Registered /\ [][C12_Stays]_vars

\* C12's case: an INIT named the ID of a created channel, went past the
\* lookup and registered its request.
C12_Witness ==
    /\ IsInit /\ ev.req.ServerChannelID \in ChanIDs
    /\ ~channels[ev.req.ServerChannelID].isNil
    /\ ev.err = Nil /\ ev.sent /= <<>>
    /\ requests[ev.req.RequestID] /= 0

\* C13: once the connection is torn down, the request contexts are
\* cancelled and every request still in the table is DESTROYED.
C13_TeardownDestroysRequests ==
    closed =>
        /\ ctxDone
        /\ \A id \in ReqIDs : requests[id] /= 0 => RequestAt(id).status = DESTROYED

\* serve has returned: the read loop is over.
LoopEnded == loop \in {"eof", "err"}
\* Some execution task of the connection has not returned yet.
TaskRunning == \E o \in ObjIDs : task[o].pc /= "none"

\* C14: handleConnection never returns (and closes the transport) while a
\* task is running; and once the read loop has ended, with executors that
\* return after cancellation and sends that return, every task finishes and
\* handleConnection returns and closes the transport.
C14_TeardownTerminates ==
    /\ [](closed => LoopEnded /\ ~TaskRunning)
    /\ (LoopEnded ~> (closed /\ ~TaskRunning))

\* C14's case: the read loop ended while a task was running, and the last
\* of the tasks has now returned with the transport still open.
C14_Witness ==
    /\ LoopEnded /\ ~TaskRunning /\ ~closed
    /\ ev.type = "finished"

\* The steps that are not the read loop's: the tasks' and handleConnection's.
BackgroundEvents == {"executed", "completion", "locked", "finished", "closed"}

\* C15, in a state: a clean end-of-stream ends the loop with no error for
\* the connection; a failed read, a failed decode and a handler whose send
\* failed end it with that error, which is the connection's error.
C15_LoopEnd ==
    /\ ev.type = "eof" => loop = "eof"
    /\ loop = "eof" => gErr = Nil
    /\ ev.type \in {"readerr", "decodeerr"} => loop = "err" /\ gErr = ioError
    /\ (ev.type \in {"validation", "create"} /\ ev.sent = <<>>) =>
          loop = "err" /\ gErr = ioError
    /\ loop = "err" => gErr /= Nil

\* C15, in a step: an ended loop stays ended and handles no further message,
\* and the connection's error, once set, is not replaced.
C15_NothingAfter ==
    /\ LoopEnded =>
          /\ loop' = loop
          /\ channels' = channels /\ requests' = requests
          /\ ev'.type \in BackgroundEvents
    /\ gErr /= Nil => gErr' = gErr

\* C15: the read loop ends without error on a clean end-of-stream and with
\* the first other error of a read or a handler, which is the error reported
\* for the connection; no message is dispatched after the loop has ended.
C15_ReadLoopEnds == []C15_LoopEnd /\ [][C15_NothingAfter]_vars

\* C15's case: a message failed to decode while a task was running; the
\* loop has ended with that error.
C15_Witness ==
    /\ ev.type = "decodeerr" /\ loop = "err" /\ gErr = ioError
    /\ TaskRunning

\* A step that handles a message whose command has no handler leaves no
\* response, the tables, the request objects and the tasks as they were, no
\* error for the connection, and the read loop running.
C16_Ignored ==
    ev'.type = "ignored" =>
        /\ ev'.cmd \notin DispatchCommands
        /\ ev'.sent = <<>>
        /\ channels' = channels /\ requests' = requests
        /\ heap' = heap /\ task' = task
        /\ gErr' = gErr
        /\ loop' = "running"

\* C16: a message whose command is not in the dispatch table is ignored: no
\* response, channel and request table unchanged, the read loop continues.
C16_UnknownCommandIgnored == [][C16_Ignored]_vars

\* C16's case: a message with an unknown command was read while the tables
\* had entries and a task was running.
C16_Witness ==
    /\ ev.type = "ignored" /\ loop = "running"
    /\ \E id \in ChanIDs : ~channels[id].isNil
    /\ \E id \in ReqIDs : requests[id] /= 0
    /\ TaskRunning

\* Some executor has been called and has not returned.
Executing == \E o \in ObjIDs : task[o].pc = "exec"
\* A decoded CHANNEL_RPC message on channel 1 with a structure argument.
RPCOn(id, sub) ==
    [ServerChannelID |-> 1, RequestID |-> id, Subcommand |-> sub, isStruct |-> TRUE]

\* C17: while an executor runs and the read loop has not ended, the task in
\* the executor does not hold the mutex; whoever holds it is at the end of
\* its critical section and releases it without waiting; and with the mutex
\* free the read loop can handle any next message: an INIT or EXEC for any
\* request ID, a create request.
C17_ReadLoopNotBlocked ==
    (loop = "running" /\ Executing) =>
        /\ \A o \in ObjIDs : task[o].pc = "exec" => mu /= o
        /\ mu /= 0 => ENABLED TaskFinish(mu)
        /\ mu = 0 =>
              /\ \A id \in ReqIDs, sub \in Subcommands :
                    ENABLED HandleChannelRPC(RPCOn(id, sub), TRUE)
              /\ \A e \in Entries : ENABLED HandleCreateChannelRequest(<<e>>, TRUE)

\* C17's case: while the executor of one request runs, an INIT for another
\* request ID was handled and its response sent.
C17_Witness ==
    /\ IsInit /\ ev.err = Nil /\ ev.sent /= <<>>
    /\ loop = "running"
    /\ \E o \in ObjIDs :
          task[o].pc = "exec" /\ task[o].RequestID /= ev.req.RequestID

\* The mutex is held before position i of the handler's operations tr.
Held(tr, i) ==
    Cardinality({j \in 1..(i - 1) : tr[j] = "Lock"})
        > Cardinality({j \in 1..(i - 1) : tr[j] = "Unlock"})
\* Calls that may take long, and the accesses the mutex is there for.
Outside == {"CreateChannelRPC", "ChannelRPC", "SendApp"}
Guarded == {"read channels", "read requests", "write requests",
            "read status", "write status"}

\* C18, the handler's goroutine: it calls the factory and sends with the
\* mutex released, touches the tables and a status with the mutex held,
\* takes the mutex only when it does not hold it and only for such an
\* access, and has released it when it returns.
C18_HandlerLocks ==
    IsRPC =>
        LET tr == ev.ops
        IN  /\ \A i \in 1..Len(tr) :
                  /\ tr[i] \in Outside => ~Held(tr, i)
                  /\ tr[i] \in Guarded => Held(tr, i)
                  /\ tr[i] = "Unlock" => Held(tr, i)
                  /\ tr[i] = "Lock" =>
                        ~Held(tr, i) /\ i < Len(tr) /\ tr[i + 1] \in Guarded
            /\ ~Held(tr, Len(tr) + 1)
            /\ ev.spawned /= {} => \E i \in 1..Len(tr) : tr[i] = "write status"

\* C18, the tasks' goroutines: a task in its executor, in its send or
\* waiting for the mutex does not hold it; the holder is a task between its
\* Lock and its return.
C18_TaskLocks ==
    /\ \A o \in ObjIDs : task[o].pc \in {"exec", "send", "lock"} => mu /= o
    /\ mu /= 0 => task[mu].pc = "locked"

\* C18, in a step outside the handler: a request's status is written only
\* by the task that holds the mutex before or after the step.
C18_StatusUnderLock ==
    \A o \in ObjIDs :
        (heap'[o].status /= heap[o].status /\ heap'[o] /= NoObj) =>
            \/ ev'.type = "rpc"
            \/ mu = o \/ mu' = o

\* C18: c.mu is never held across an executor call, a factory call or a
\* send; it is held around the accesses to the tables and to a request's
\* status, and every such access has it.
C18_MutexDiscipline ==
    /\ [](C18_HandlerLocks /\ C18_TaskLocks)
    /\ [][C18_StatusUnderLock]_vars

\* C18's case: a task holds the mutex and has written its status while the
\* executor of another request is running.
C18_Witness ==
    /\ ev.type = "locked" /\ mu = ev.obj
    /\ \E o \in ObjIDs \ {mu} : task[o].pc = "exec"

\* The status of request object o as a reader under the mutex m finds it:
\* what the task holding the mutex has written so far is seen by nobody
\* before the task's Unlock.
StatusOf(hp, m, o) == IF m = o THEN REQUEST_IN_PROGRESS ELSE hp[o].status

\* C19, in a state: the requests of the table are READY, REQUEST_IN_PROGRESS
\* or DESTROYED, and no request object is CANCELLED.
C19_Statuses ==
    /\ \A id \in ReqIDs :
          requests[id] /= 0 =>
              RequestAt(id).status \in {READY, REQUEST_IN_PROGRESS, DESTROYED}
    /\ \A o \in ObjIDs : heap[o].status /= CANCELLED

\* C19, in a step: the status of a request object changes from READY to
\* REQUEST_IN_PROGRESS when an EXEC starts its task, and from
\* REQUEST_IN_PROGRESS to READY or, with the DESTROY flag, to DESTROYED when
\* the task returns. Otherwise the pointer o changes its meaning: a
\* successful INIT makes a new READY object, or the object is reclaimed.
C19_Transitions ==
    \A o \in ObjIDs :
        LET a == StatusOf(heap, mu, o)
            b == StatusOf(heap', mu', o)
        IN  a /= b =>
              \/ /\ a = READY /\ b = REQUEST_IN_PROGRESS
                 /\ ev'.type = "rpc" /\ ev'.req.Subcommand /= CHANNEL_RPC_INIT
                 /\ o \in ev'.spawned
              \/ /\ a = REQUEST_IN_PROGRESS /\ b = READY
                 /\ ev'.type = "finished" /\ ev'.obj = o
                 /\ ~HasDestroy(ev'.Subcommand)
              \/ /\ a = REQUEST_IN_PROGRESS /\ b = DESTROYED
                 /\ ev'.type = "finished" /\ ev'.obj = o
                 /\ HasDestroy(ev'.Subcommand)
              \/ /\ a \in {INIT, DESTROYED} /\ b = READY
                 /\ ev'.type = "rpc" /\ ev'.req.Subcommand = CHANNEL_RPC_INIT
                 /\ ev'.err = Nil
                 /\ requests'[ev'.req.RequestID] = o
                 /\ requests[ev'.req.RequestID] = 0 \/ ev'.pre.status = DESTROYED
              \/ heap'[o] = NoObj

\* C19: table entries are READY, REQUEST_IN_PROGRESS or DESTROYED; a status
\* changes only READY to REQUEST_IN_PROGRESS, REQUEST_IN_PROGRESS to READY
\* and REQUEST_IN_PROGRESS to DESTROYED; CANCELLED is never reached and a
\* DESTROYED request keeps its status.
C19_StatusMachine == []C19_Statuses /\ [][C19_Transitions]_vars

\* C19's case: an INIT has put a new READY request under an ID whose
\* earlier request is DESTROYED.
C19_Witness ==
    /\ IsInit /\ ev.err = Nil
    /\ ev.pre.status = DESTROYED
    /\ RequestAt(ev.req.RequestID).status = READY

\* C20: when the completion response of an EXEC has been sent, the request
\* is already READY, or DESTROYED with the DESTROY flag; so an EXEC that
\* comes after the completion was sent is not answered "request not READY"
\* and an INIT after a DESTROY's completion not "request ID already exists".
C20_ReadyWhenCompletionSent ==
    /\ (ev.type = "completion" /\ ev.sent /= <<>>) =>
          heap[ev.obj].status =
              IF HasDestroy(ev.sent[1].Subcommand) THEN DESTROYED ELSE READY
    /\ (IsRPC /\ WasRegistered /\ ~ev.panic /\ ev.req.isStruct
             /\ \E o \in ObjIDs : /\ task[o].pc \in {"lock", "locked"}
                                  /\ task[o].RequestID = ev.req.RequestID) =>
          /\ ev.err /= StatusError(PVStatus_ERROR, <<"request not READY">>)
          /\ ev.err.kind = "error" => ev.err.Message[1] /= "request ID already exists"

====
